---------------------------- MODULE Spec2Model ----------------------------
(***************************************************************************)
(* Row-level-security model of the volunteer portal.                       *)
(*                                                                         *)
(* The tables are sets of rows.  Every statement a caller sends is one     *)
(* action: the policies of supabase/migrations decide which rows it may    *)
(* act on (USING) and which new rows it may leave behind (WITH CHECK).     *)
(* Policies of one table and command are permissive, so they are combined  *)
(* with OR; a policy without WITH CHECK checks new rows with its USING     *)
(* expression; a statement that reads the table (WHERE, RETURNING) is      *)
(* also held to the SELECT policies.  A row that fails USING is skipped    *)
(* silently, a new row that fails WITH CHECK aborts the statement.         *)
(*                                                                         *)
(* The policy catalogue is every policy the migrations create and no      *)
(* later migration drops by name; the migrations whose file names are not  *)
(* known count as applied.  Policies that differ only in name are listed   *)
(* once.  A comparison with NULL is not true; no policy negates, so NULL   *)
(* is modelled as a value that equals nothing.  Functions declared         *)
(* SECURITY DEFINER run without policies, and any caller may execute       *)
(* them.  Foreign keys hold: a row naming a missing user or class is       *)
(* refused.  The migrations do not state the keys' delete rule; the        *)
(* default is taken, so a class that is referenced is not deleted.         *)
(***************************************************************************)
EXTENDS Integers, FiniteSets, Sequences, TLC

\* ------------------------------------------------------------------ bounds
NumUsers == 2
NumClasses == 2
MaxEntries == 1
MaxAnnouncements == 1
MaxRequests == 2

\* ------------------------------------------------------------------ domains
NULL == 0
Ids == 1 .. NumUsers
ClassIds == 1 .. NumClasses
EntryIds == 1 .. MaxEntries
AnnouncementIds == 1 .. MaxAnnouncements
\* auth.uid() of a request: an identity, or NULL for the anon key
Callers == Ids \cup {NULL}
\* a statement's filter: WHERE id = t, or no WHERE clause at all
NoFilter == 0

Roles == {"admin", "volunteer", "viewer"}
NoRole == "none"
BootstrapEmail == "sunny@example.com"
Emails == {BootstrapEmail, "someone@example.com"}
Names == {"n1", "n2"}
Labels == {"l1", "l2"}
Notes == {"t1", "t2"}
Messages == {"m1", "m2"}

VARIABLES users, classes, class_assignments, syllabus_entries, announcements, last,
          requests, activeRIRs, page, calls

vars == <<users, classes, class_assignments, syllabus_entries, announcements, last,
          requests, activeRIRs, page, calls>>

\* ---------------------------------------------------------------- helpers
\* UPDATE ... SET: the columns of p replace those of r
Patch(r, p) == [f \in DOMAIN r |-> IF f \in DOMAIN p THEN p[f] ELSE r[f]]

Match(r, t) == t = NoFilter \/ r.id = t

Reads(t) == t # NoFilter

auth_role(c) == IF c = NULL THEN "anon" ELSE "authenticated"

get_current_user_role(c) ==
    IF \E r \in users : r.id = c
    THEN (CHOOSE r \in users : r.id = c).role
    ELSE NoRole

Assigned(c, k) == \E ca \in class_assignments : ca.class_id = k /\ ca.user_id = c

\* what the last statement was and what the caller got back: the caller, the
\* role it had when the statement ran, the ids it named, whether the statement
\* ended without error and the number of rows it returned or changed
Outcome2(op, c, t, t2, ok, n) ==
    [op |-> op, uid |-> c, role |-> get_current_user_role(c), arg |-> t,
     arg2 |-> t2, ok |-> ok, rows |-> IF ok THEN n ELSE 0]

Outcome(op, c, t, ok, n) == Outcome2(op, c, t, NULL, ok, n)

\* ------------------------------------------------------ policies on users
\* variant: volunteers read every row too
UsersReadOwnProfileOrStaffReadAll(c, r) ==
    r.id = c \/ get_current_user_role(c) \in {"admin", "volunteer"}

UsersReadOwnProfileOrAdminsReadAll(c, r) ==
    r.id = c \/ get_current_user_role(c) = "admin"

users_SELECT(c, r) == UsersReadOwnProfileOrAdminsReadAll(c, r)

\* (SELECT role FROM public.users WHERE id = auth.uid()), read by the caller
\* in the statement's snapshot: the role stored before the update
StoredRoleOfCaller(c) ==
    IF \E r \in users : r.id = c /\ users_SELECT(c, r)
    THEN (CHOOSE r \in users : r.id = c /\ users_SELECT(c, r)).role
    ELSE NoRole

UsersUpdateOwnProfileExceptRole_USING(c, r) == r.id = c

UsersUpdateOwnProfileExceptRole_CHECK(c, r) ==
    /\ r.id = c
    /\ \/ r.role = StoredRoleOfCaller(c)
       \/ get_current_user_role(c) = "admin"

UsersCanUpdateOwnProfile(c, r) == r.id = c

SystemInsertsUsers(c, r) == TRUE

\* variant: every caller but a viewer deletes users
AllButViewersDeleteUsers(c, r) == get_current_user_role(c) # "viewer"

AdminsDeleteUsers(c, r) == get_current_user_role(c) = "admin"

\* variant: the constraint only asks for a role that is not empty
role_not_empty(r) == r.role # ""

valid_user_roles(r) == r.role \in Roles

users_INSERT_CHECK(c, r) == SystemInsertsUsers(c, r)

users_UPDATE_USING(c, r) ==
    \/ UsersUpdateOwnProfileExceptRole_USING(c, r)
    \/ UsersCanUpdateOwnProfile(c, r)

users_UPDATE_CHECK(c, r) ==
    \/ UsersUpdateOwnProfileExceptRole_CHECK(c, r)
    \/ UsersCanUpdateOwnProfile(c, r)

users_DELETE_USING(c, r) == AdminsDeleteUsers(c, r)

\* ----------------------------------------------------- statements on users
UserPatches ==
    [role : Roles \cup {"superadmin"}] \cup [name : Names]
        \cup [role : Roles, name : Names]

\* variant: ON CONFLICT (id) DO UPDATE, the existing row is overwritten
handle_new_user_overwriting(u, email, name) ==
    LET row == [id |-> u, name |-> name,
                role |-> IF email = BootstrapEmail THEN "admin" ELSE "viewer"]
        hit == {r \in users : r.id = u}
    IN  /\ users' = (users \ hit) \cup {row}
        /\ last' = [op |-> "handle_new_user", uid |-> NULL, role |-> NoRole,
                    arg |-> u, arg2 |-> NULL, ok |-> TRUE,
                    rows |-> IF hit # {} THEN 0 ELSE 1]
        /\ UNCHANGED <<calls, page, activeRIRs, requests, classes, class_assignments, syllabus_entries, announcements>>

\* trigger on auth.users: provisioning
handle_new_user(u, email, name) ==
    LET row == [id |-> u, name |-> name,
                role |-> IF email = BootstrapEmail THEN "admin" ELSE "viewer"]
        conflict == \E r \in users : r.id = u
    IN  /\ users' = IF conflict THEN users ELSE users \cup {row}
        /\ last' = [op |-> "handle_new_user", uid |-> NULL, role |-> NoRole,
                    arg |-> u, arg2 |-> NULL, ok |-> TRUE,
                    rows |-> IF conflict THEN 0 ELSE 1]
        /\ UNCHANGED <<calls, page, activeRIRs, requests, classes, class_assignments, syllabus_entries, announcements>>

\* rpc promote_user(target_user, new_role): SECURITY DEFINER, no policy applies
promote_user(c, target_user, new_role) ==
    LET valid == new_role \in {"admin", "volunteer", "viewer"}
        hit == {r \in users : r.id = target_user}
    IN  /\ users' = IF valid
                    THEN (users \ hit) \cup {Patch(r, [role |-> new_role]) : r \in hit}
                    ELSE users
        /\ last' = Outcome("promote_user", c, target_user, valid, Cardinality(hit))
        /\ UNCHANGED <<calls, page, activeRIRs, requests, classes, class_assignments, syllabus_entries, announcements>>

\* INSERT INTO users (id, role, name): the key on id refuses a second row
InsertUsers(c, u, role, name) ==
    LET row == [id |-> u, role |-> role, name |-> name]
        ok == /\ users_INSERT_CHECK(c, row)
              /\ valid_user_roles(row)
              /\ \A r \in users : r.id # u
    IN  /\ users' = IF ok THEN users \cup {row} ELSE users
        /\ last' = Outcome("InsertUsers", c, u, ok, 1)
        /\ UNCHANGED <<calls, page, activeRIRs, requests, classes, class_assignments, syllabus_entries, announcements>>

SelectUsers(c, t) ==
    LET seen == {r \in users : Match(r, t) /\ users_SELECT(c, r)}
    IN  /\ last' = Outcome("SelectUsers", c, t, TRUE, Cardinality(seen))
        /\ UNCHANGED <<calls, page, activeRIRs, requests, users, classes, class_assignments, syllabus_entries, announcements>>

\* the rows and the outcome of UPDATE users SET p WHERE id = t, sent by op
UpdateUsersAs(op, c, t, p) ==
    LET hit == {r \in users : /\ Match(r, t)
                               /\ users_UPDATE_USING(c, r)
                               /\ (Reads(t) => users_SELECT(c, r))}
        ok == \A r \in hit : /\ users_UPDATE_CHECK(c, Patch(r, p))
                             /\ (Reads(t) => users_SELECT(c, Patch(r, p)))
                             /\ valid_user_roles(Patch(r, p))
    IN  /\ users' = IF ok THEN (users \ hit) \cup {Patch(r, p) : r \in hit} ELSE users
        /\ last' = Outcome(op, c, t, ok, Cardinality(hit))

UpdateUsersRows(c, t, p) == UpdateUsersAs("UpdateUsers", c, t, p)

UpdateUsers(c, t, p) ==
    /\ UpdateUsersRows(c, t, p)
    /\ UNCHANGED <<calls, page, activeRIRs, requests, classes, class_assignments, syllabus_entries, announcements>>

\* ------------------------------------------- self-updates sent by the pages
\* a request in flight: who sent it, what it sets, the profile the page had
\* loaded when it was sent, and whether the database has run it
ProfileOf(c) == CHOOSE r \in users : r.id = c

Send(c, p) ==
    /\ c \in Ids
    /\ \E r \in users : r.id = c
    /\ Cardinality(requests) < MaxRequests
    /\ requests' = requests \cup
                     {[uid |-> c, patch |-> p, profile |-> ProfileOf(c), done |-> FALSE]}
    /\ UNCHANGED <<calls, page, activeRIRs, users, classes, class_assignments, syllabus_entries,
                   announcements, last>>

\* Profile.handleSaveProfile: update({name}).eq('id', user.id)
handleSaveProfile(c, n) == Send(c, [name |-> n])

\* the same statement sent with the caller's token and a role instead
UpdateOwnRole(c, role) == Send(c, [role |-> role])

\* the database runs a request in flight; statements on one row are
\* serialised by its row lock, so each one runs against the stored row
Deliver(q) ==
    /\ q \in requests
    /\ ~q.done
    /\ UpdateUsersRows(q.uid, q.uid, q.patch)
    /\ requests' = (requests \ {q}) \cup {[q EXCEPT !.done = TRUE]}
    /\ UNCHANGED <<calls, page, activeRIRs, classes, class_assignments, syllabus_entries, announcements>>

\* ---------------------------------------------------- policies on classes
PublicCanViewClasses(c, r) == TRUE

UsersViewAssignedClasses(c, r) ==
    /\ auth_role(c) = "authenticated"
    /\ \/ get_current_user_role(c) = "admin"
       \/ Assigned(c, r.id)

\* variant: every signed-in caller manages classes
AuthenticatedManageClasses(c, r) == auth_role(c) = "authenticated"

AdminsManageClasses(c, r) == get_current_user_role(c) = "admin"

classes_SELECT(c, r) ==
    \/ PublicCanViewClasses(c, r)
    \/ UsersViewAssignedClasses(c, r)
    \/ AdminsManageClasses(c, r)

classes_INSERT_CHECK(c, r) == AdminsManageClasses(c, r)

classes_UPDATE_USING(c, r) == AdminsManageClasses(c, r)

classes_UPDATE_CHECK(c, r) == AdminsManageClasses(c, r)

classes_DELETE_USING(c, r) == AdminsManageClasses(c, r)

\* ------------------------------------------ policies on class_assignments
\* variant: the assignments of one's own classes are visible, not only one's own
UsersSeeAssignmentsOfOwnClasses(c, r) ==
    Assigned(c, r.class_id) \/ get_current_user_role(c) = "admin"

UsersSeeOwnAssignments(c, r) ==
    r.user_id = c \/ get_current_user_role(c) = "admin"

\* variant: admins manage the assignments of volunteers only
AdminsManageVolunteerAssignments(c, r) ==
    /\ get_current_user_role(c) = "admin"
    /\ get_current_user_role(r.user_id) = "volunteer"

AdminsManageAssignments(c, r) == get_current_user_role(c) = "admin"

class_assignments_SELECT(c, r) ==
    UsersSeeOwnAssignments(c, r) \/ AdminsManageAssignments(c, r)

class_assignments_INSERT_CHECK(c, r) == AdminsManageAssignments(c, r)

class_assignments_UPDATE_USING(c, r) == AdminsManageAssignments(c, r)

class_assignments_UPDATE_CHECK(c, r) == AdminsManageAssignments(c, r)

class_assignments_DELETE_USING(c, r) == AdminsManageAssignments(c, r)

\* ------------------------------------------- policies on syllabus_entries
\* variant: every signed-in caller views every entry
AuthenticatedViewSyllabus(c, r) == auth_role(c) = "authenticated"

UsersViewAssignedClassSyllabus(c, r) ==
    /\ auth_role(c) = "authenticated"
    /\ \/ get_current_user_role(c) = "admin"
       \/ Assigned(c, r.class_id)

\* variant: the row's volunteer is not compared with the caller
VolunteersManageAssignedSyllabus(c, r) ==
    /\ auth_role(c) = "authenticated"
    /\ Assigned(c, r.class_id)

VolunteersManageOwnSyllabus(c, r) ==
    /\ auth_role(c) = "authenticated"
    /\ r.volunteer_id = c
    /\ Assigned(c, r.class_id)

AdminsManageAllSyllabus(c, r) == get_current_user_role(c) = "admin"

VolunteersCanUpdateOwnSyllabusEntries(c, r) == r.volunteer_id = c

syllabus_entries_SELECT(c, r) ==
    \/ UsersViewAssignedClassSyllabus(c, r)
    \/ VolunteersManageOwnSyllabus(c, r)
    \/ AdminsManageAllSyllabus(c, r)

syllabus_entries_INSERT_CHECK(c, r) ==
    \/ VolunteersManageOwnSyllabus(c, r)
    \/ AdminsManageAllSyllabus(c, r)

syllabus_entries_UPDATE_USING(c, r) ==
    \/ VolunteersManageOwnSyllabus(c, r)
    \/ AdminsManageAllSyllabus(c, r)
    \/ VolunteersCanUpdateOwnSyllabusEntries(c, r)

syllabus_entries_UPDATE_CHECK(c, r) ==
    \/ VolunteersManageOwnSyllabus(c, r)
    \/ AdminsManageAllSyllabus(c, r)
    \/ VolunteersCanUpdateOwnSyllabusEntries(c, r)

syllabus_entries_DELETE_USING(c, r) ==
    \/ VolunteersManageOwnSyllabus(c, r)
    \/ AdminsManageAllSyllabus(c, r)

\* ---------------------------------------------- policies on announcements
UsersReadRelevantAnnouncements(c, r) ==
    /\ auth_role(c) = "authenticated"
    /\ \/ r.class_id = NULL
       \/ get_current_user_role(c) = "admin"
       \/ Assigned(c, r.class_id)

VolunteersPostToAssignedClasses(c, r) ==
    /\ auth_role(c) = "authenticated"
    /\ r.author_id = c
    /\ \/ r.class_id = NULL
       \/ Assigned(c, r.class_id)

\* variant: whoever may post to the row's class may update the row
PostersUpdateAnnouncements(c, r) ==
    /\ auth_role(c) = "authenticated"
    /\ (r.class_id = NULL \/ Assigned(c, r.class_id))

AuthorsUpdateOwnAnnouncements(c, r) == r.author_id = c

AdminsManageAllAnnouncements(c, r) == get_current_user_role(c) = "admin"

announcements_SELECT(c, r) ==
    \/ UsersReadRelevantAnnouncements(c, r)
    \/ AdminsManageAllAnnouncements(c, r)

announcements_INSERT_CHECK(c, r) ==
    \/ VolunteersPostToAssignedClasses(c, r)
    \/ AdminsManageAllAnnouncements(c, r)

announcements_UPDATE_USING(c, r) ==
    \/ AuthorsUpdateOwnAnnouncements(c, r)
    \/ AdminsManageAllAnnouncements(c, r)

announcements_UPDATE_CHECK(c, r) ==
    \/ AuthorsUpdateOwnAnnouncements(c, r)
    \/ AdminsManageAllAnnouncements(c, r)

announcements_DELETE_USING(c, r) == AdminsManageAllAnnouncements(c, r)

\* --------------------------------------------------- statements on classes
ClassRefs(k) ==
    \/ \E r \in class_assignments : r.class_id = k
    \/ \E r \in syllabus_entries : r.class_id = k
    \/ \E r \in announcements : r.class_id = k

UserExists(u) == \E r \in users : r.id = u

ClassExists(k) == \E r \in classes : r.id = k

\* rows of other tables that name the user (user_id, volunteer_id, author_id
\* foreign keys)
UserRefs(u) ==
    \/ \E r \in class_assignments : r.user_id = u
    \/ \E r \in syllabus_entries : r.volunteer_id = u
    \/ \E r \in announcements : r.author_id = u

\* trigger on auth.users: the identity is deleted, and its users row with it
\* unless rows of other tables still name it
handle_deleted_user(u) ==
    LET hit == {r \in users : r.id = u}
        ok == ~UserRefs(u)
    IN  /\ users' = IF ok THEN users \ hit ELSE users
        /\ last' = [op |-> "handle_deleted_user", uid |-> NULL, role |-> NoRole,
                    arg |-> u, arg2 |-> NULL, ok |-> ok,
                    rows |-> IF ok THEN Cardinality(hit) ELSE 0]
        /\ UNCHANGED <<calls, page, activeRIRs, requests, classes, class_assignments, syllabus_entries, announcements>>

SelectClasses(c, t) ==
    LET seen == {r \in classes : Match(r, t) /\ classes_SELECT(c, r)}
    IN  /\ last' = Outcome("SelectClasses", c, t, TRUE, Cardinality(seen))
        /\ UNCHANGED <<calls, page, activeRIRs, requests, users, classes, class_assignments, syllabus_entries, announcements>>

\* the key of classes: the generated id, and no key on grade and subject
classes_key(r) == r.id

\* insert(...).select('id'): the new row is returned, so it is read
InsertClassesRows(c, label) ==
    /\ \E k \in ClassIds : ~ClassExists(k)
    /\ LET k == CHOOSE i \in ClassIds :
                    ~ClassExists(i) /\ \A j \in ClassIds : ~ClassExists(j) => i <= j
           row == [id |-> k, class_label |-> label]
           ok == /\ classes_INSERT_CHECK(c, row)
                 /\ classes_SELECT(c, row)
                 /\ \A q \in classes : classes_key(q) # classes_key(row)
       IN  /\ classes' = IF ok THEN classes \cup {row} ELSE classes
           /\ last' = Outcome("InsertClasses", c, k, ok, 1)

InsertClasses(c, label) ==
    /\ InsertClassesRows(c, label)
    /\ UNCHANGED <<calls, page, activeRIRs, requests, users, class_assignments, syllabus_entries, announcements>>

UpdateClasses(c, t, p) ==
    LET hit == {r \in classes : /\ Match(r, t)
                                 /\ classes_UPDATE_USING(c, r)
                                 /\ (Reads(t) => classes_SELECT(c, r))}
        ok == \A r \in hit : /\ classes_UPDATE_CHECK(c, Patch(r, p))
                             /\ (Reads(t) => classes_SELECT(c, Patch(r, p)))
    IN  /\ classes' = IF ok THEN (classes \ hit) \cup {Patch(r, p) : r \in hit}
                      ELSE classes
        /\ last' = Outcome("UpdateClasses", c, t, ok, Cardinality(hit))
        /\ UNCHANGED <<calls, page, activeRIRs, requests, users, class_assignments, syllabus_entries, announcements>>

\* a class that rows of other tables still reference is not removed
\* (classes_id foreign keys of class_assignments, syllabus_entries, announcements)
DeleteClasses(c, t) ==
    LET hit == {r \in classes : /\ Match(r, t)
                                 /\ classes_DELETE_USING(c, r)
                                 /\ (Reads(t) => classes_SELECT(c, r))}
        ok == \A r \in hit : ~ClassRefs(r.id)
    IN  /\ classes' = IF ok THEN classes \ hit ELSE classes
        /\ last' = Outcome("DeleteClasses", c, t, ok, Cardinality(hit))
        /\ UNCHANGED <<calls, page, activeRIRs, requests, users, class_assignments, syllabus_entries, announcements>>

\* ----------------------------------------- statements on class_assignments
SelectClassAssignments(c, u, k) ==
    LET seen == {r \in class_assignments :
                    r.user_id = u /\ r.class_id = k /\ class_assignments_SELECT(c, r)}
    IN  /\ last' = Outcome2("SelectClassAssignments", c, u, k, TRUE, Cardinality(seen))
        /\ UNCHANGED <<calls, page, activeRIRs, requests, users, classes, class_assignments, syllabus_entries, announcements>>

\* the unique key of class_assignments, the conflict target of the upsert:
\* one row per (user_id, class_id)
class_assignments_key(r) == <<r.user_id, r.class_id>>

\* .upsert({user_id, class_id}, {onConflict: 'user_id,class_id'}): INSERT ...
\* ON CONFLICT DO UPDATE; the new row is checked as an insert, and when the
\* pair is already there the existing row is checked as an update, read, and
\* set to the same values
UpsertClassAssignmentsRows(c, u, k) ==
    LET row == [user_id |-> u, class_id |-> k]
        hit == {q \in class_assignments :
                   class_assignments_key(q) = class_assignments_key(row)}
        ok == /\ class_assignments_INSERT_CHECK(c, row)
              /\ UserExists(u)
              /\ ClassExists(k)
              /\ \A q \in hit : /\ class_assignments_UPDATE_USING(c, q)
                                /\ class_assignments_SELECT(c, q)
                                /\ class_assignments_UPDATE_CHECK(c, Patch(q, row))
    IN  /\ class_assignments' = IF ok
                                THEN (class_assignments \ hit)
                                         \cup {Patch(q, row) : q \in hit}
                                         \cup (IF hit = {} THEN {row} ELSE {})
                                ELSE class_assignments
        /\ last' = Outcome2("UpsertClassAssignments", c, u, k, ok, 1)

\* variant: a plain INSERT, which ends with a duplicate-key error when the
\* pair is already there
InsertClassAssignments(c, u, k) ==
    LET row == [user_id |-> u, class_id |-> k]
        conflict == \E q \in class_assignments :
                        class_assignments_key(q) = class_assignments_key(row)
        ok == /\ class_assignments_INSERT_CHECK(c, row)
              /\ UserExists(u)
              /\ ClassExists(k)
              /\ ~conflict
    IN  /\ class_assignments' = IF ok THEN class_assignments \cup {row}
                                ELSE class_assignments
        /\ last' = Outcome2("UpsertClassAssignments", c, u, k, ok, 1)
        /\ UNCHANGED <<calls, page, activeRIRs, requests, users, classes, syllabus_entries, announcements>>

UpsertClassAssignments(c, u, k) ==
    /\ UpsertClassAssignmentsRows(c, u, k)
    /\ UNCHANGED <<calls, page, activeRIRs, requests, users, classes, syllabus_entries, announcements>>

\* .delete().eq('user_id', userId).eq('class_id', classId)
DeleteClassAssignments(c, u, k) ==
    LET hit == {r \in class_assignments : /\ r.user_id = u
                                           /\ r.class_id = k
                                           /\ class_assignments_DELETE_USING(c, r)
                                           /\ class_assignments_SELECT(c, r)}
    IN  /\ class_assignments' = class_assignments \ hit
        /\ last' = Outcome2("DeleteClassAssignments", c, u, k, TRUE, Cardinality(hit))
        /\ UNCHANGED <<calls, page, activeRIRs, requests, users, classes, syllabus_entries, announcements>>

\* ------------------------------------------ statements on syllabus_entries
EntryPatches ==
    [notes : Notes] \cup [approved : BOOLEAN] \cup [class_id : ClassIds]
        \cup [volunteer_id : Ids]

\* the rows a SELECT of caller c with filter t returns
SeenSyllabusEntries(c, t) ==
    {r \in syllabus_entries : Match(r, t) /\ syllabus_entries_SELECT(c, r)}

SelectSyllabusEntries(c, t) ==
    LET seen == SeenSyllabusEntries(c, t)
    IN  /\ last' = Outcome("SelectSyllabusEntries", c, t, TRUE, Cardinality(seen))
        /\ UNCHANGED <<calls, page, activeRIRs, requests, users, classes, class_assignments, syllabus_entries, announcements>>

\* variant: the row is written before the policies are asked
InsertSyllabusEntriesThenCheck(c, v, k, approved, notes, returning) ==
    /\ \E i \in EntryIds : \A r \in syllabus_entries : r.id # i
    /\ LET i == CHOOSE j \in EntryIds : \A r \in syllabus_entries : r.id # j
           row == [id |-> i, class_id |-> k, volunteer_id |-> v,
                   approved |-> approved, notes |-> notes]
           ok == /\ syllabus_entries_INSERT_CHECK(c, row)
                 /\ (returning => syllabus_entries_SELECT(c, row))
       IN  /\ syllabus_entries' = syllabus_entries \cup {row}
           /\ last' = Outcome2("InsertSyllabusEntries", c, v, k, ok, 1)
    /\ UNCHANGED <<calls, page, activeRIRs, requests, users, classes, class_assignments, announcements>>

\* insert(entry), with .select() when returning: the new row is then read
InsertSyllabusEntries(c, v, k, approved, notes, returning) ==
    /\ \E i \in EntryIds : \A r \in syllabus_entries : r.id # i
    /\ LET i == CHOOSE j \in EntryIds :
                    /\ \A r \in syllabus_entries : r.id # j
                    /\ \A h \in EntryIds :
                           (\A r \in syllabus_entries : r.id # h) => j <= h
           row == [id |-> i, class_id |-> k, volunteer_id |-> v,
                   approved |-> approved, notes |-> notes]
           ok == /\ syllabus_entries_INSERT_CHECK(c, row)
                 /\ (returning => syllabus_entries_SELECT(c, row))
                 /\ UserExists(v)
                 /\ ClassExists(k)
       IN  /\ syllabus_entries' = IF ok THEN syllabus_entries \cup {row}
                                  ELSE syllabus_entries
           /\ last' = Outcome2("InsertSyllabusEntries", c, v, k, ok, 1)
    /\ UNCHANGED <<calls, page, activeRIRs, requests, users, classes, class_assignments, announcements>>

UpdateSyllabusEntries(c, t, p) ==
    LET hit == {r \in syllabus_entries : /\ Match(r, t)
                                          /\ syllabus_entries_UPDATE_USING(c, r)
                                          /\ (Reads(t) => syllabus_entries_SELECT(c, r))}
        ok == \A r \in hit : /\ syllabus_entries_UPDATE_CHECK(c, Patch(r, p))
                             /\ (Reads(t) => syllabus_entries_SELECT(c, Patch(r, p)))
                             /\ UserExists(Patch(r, p).volunteer_id)
                             /\ ClassExists(Patch(r, p).class_id)
    IN  /\ syllabus_entries' = IF ok
                               THEN (syllabus_entries \ hit) \cup {Patch(r, p) : r \in hit}
                               ELSE syllabus_entries
        /\ last' = Outcome("UpdateSyllabusEntries", c, t, ok, Cardinality(hit))
        /\ UNCHANGED <<calls, page, activeRIRs, requests, users, classes, class_assignments, announcements>>

DeleteSyllabusEntries(c, t) ==
    LET hit == {r \in syllabus_entries : /\ Match(r, t)
                                          /\ syllabus_entries_DELETE_USING(c, r)
                                          /\ (Reads(t) => syllabus_entries_SELECT(c, r))}
    IN  /\ syllabus_entries' = syllabus_entries \ hit
        /\ last' = Outcome("DeleteSyllabusEntries", c, t, TRUE, Cardinality(hit))
        /\ UNCHANGED <<calls, page, activeRIRs, requests, users, classes, class_assignments, announcements>>

\* --------------------------------------------- statements on announcements
AnnouncementPatches ==
    [message : Messages] \cup [class_id : ClassIds \cup {NULL}] \cup [author_id : Ids]

SelectAnnouncements(c, t) ==
    LET seen == {r \in announcements : Match(r, t) /\ announcements_SELECT(c, r)}
    IN  /\ last' = Outcome("SelectAnnouncements", c, t, TRUE, Cardinality(seen))
        /\ UNCHANGED <<calls, page, activeRIRs, requests, users, classes, class_assignments, syllabus_entries, announcements>>

InsertAnnouncements(c, a, k, message, returning) ==
    /\ \E i \in AnnouncementIds : \A r \in announcements : r.id # i
    /\ LET i == CHOOSE j \in AnnouncementIds :
                    /\ \A r \in announcements : r.id # j
                    /\ \A h \in AnnouncementIds :
                           (\A r \in announcements : r.id # h) => j <= h
           row == [id |-> i, class_id |-> k, author_id |-> a, message |-> message]
           ok == /\ announcements_INSERT_CHECK(c, row)
                 /\ (returning => announcements_SELECT(c, row))
                 /\ UserExists(a)
                 /\ (k # NULL => ClassExists(k))
       IN  /\ announcements' = IF ok THEN announcements \cup {row} ELSE announcements
           /\ last' = Outcome2("InsertAnnouncements", c, a, k, ok, 1)
    /\ UNCHANGED <<calls, page, activeRIRs, requests, users, classes, class_assignments, syllabus_entries>>

UpdateAnnouncements(c, t, p) ==
    LET hit == {r \in announcements : /\ Match(r, t)
                                       /\ announcements_UPDATE_USING(c, r)
                                       /\ (Reads(t) => announcements_SELECT(c, r))}
        ok == \A r \in hit : /\ announcements_UPDATE_CHECK(c, Patch(r, p))
                             /\ (Reads(t) => announcements_SELECT(c, Patch(r, p)))
                             /\ UserExists(Patch(r, p).author_id)
                             /\ (Patch(r, p).class_id # NULL => ClassExists(Patch(r, p).class_id))
    IN  /\ announcements' = IF ok
                            THEN (announcements \ hit) \cup {Patch(r, p) : r \in hit}
                            ELSE announcements
        /\ last' = Outcome("UpdateAnnouncements", c, t, ok, Cardinality(hit))
        /\ UNCHANGED <<calls, page, activeRIRs, requests, users, classes, class_assignments, syllabus_entries>>

DeleteAnnouncements(c, t) ==
    LET hit == {r \in announcements : /\ Match(r, t)
                                       /\ announcements_DELETE_USING(c, r)
                                       /\ (Reads(t) => announcements_SELECT(c, r))}
    IN  /\ announcements' = announcements \ hit
        /\ last' = Outcome("DeleteAnnouncements", c, t, TRUE, Cardinality(hit))
        /\ UNCHANGED <<calls, page, activeRIRs, requests, users, classes, class_assignments, syllabus_entries>>

\* ------------------------------------------------------------------ views
\* Both views are created WITH (security_invoker = true): the base tables
\* are read under the policies of the caller of the view.
\* variant: the view as first created, read with its owner's rights
pending_volunteers_as_owner(c) ==
    {[id |-> r.id, name |-> r.name] : r \in {q \in users : q.role = "viewer"}}

\* SELECT id, name, ... FROM users WHERE role = 'viewer'
pending_volunteers(c) ==
    {[id |-> r.id, name |-> r.name] :
         r \in {q \in users : users_SELECT(c, q) /\ q.role = "viewer"}}

\* syllabus_entries se JOIN users u ON se.volunteer_id = u.id
\*                     JOIN classes c ON se.class_id = c.id
\* WHERE u.role IN ('volunteer', 'admin')
volunteer_dashboard(c) ==
    {[syllabus_entry_id |-> t[1].id, class_id |-> t[1].class_id,
      volunteer_id |-> t[1].volunteer_id, notes |-> t[1].notes,
      volunteer_name |-> t[2].name, class_label |-> t[3].class_label] :
         t \in {x \in syllabus_entries \X users \X classes :
                    /\ syllabus_entries_SELECT(c, x[1])
                    /\ users_SELECT(c, x[2])
                    /\ classes_SELECT(c, x[3])
                    /\ x[1].volunteer_id = x[2].id
                    /\ x[1].class_id = x[3].id
                    /\ x[2].role \in {"volunteer", "admin"}}}

\* the migration that creates the views grants nothing on them: whether the
\* caller's database role may read a view is left to the schema's default
\* privileges (granted); without the privilege the statement fails
SelectPendingVolunteers(c, granted) ==
    /\ last' = Outcome("SelectPendingVolunteers", c, NoFilter, granted,
                       Cardinality(pending_volunteers(c)))
    /\ UNCHANGED <<calls, page, activeRIRs, requests, users, classes, class_assignments, syllabus_entries,
                   announcements>>

SelectVolunteerDashboard(c, granted) ==
    /\ last' = Outcome("SelectVolunteerDashboard", c, NoFilter, granted,
                       Cardinality(volunteer_dashboard(c)))
    /\ UNCHANGED <<calls, page, activeRIRs, requests, users, classes, class_assignments, syllabus_entries,
                   announcements>>

\* ---------------------------------------------------------- admin pages
\* ManageVolunteers and ManageClasses, as one user has them open: the role
\* the page has read (userRole, "" until read), its loading flag, the roles
\* it lists and the toast it last showed
PageNames == {"ManageVolunteers", "ManageClasses"}

\* no admin page is open
NoPage ==
    [name |-> "none", user |-> NULL, checked |-> FALSE, userRole |-> "",
     loading |-> TRUE, shown |-> [u \in Ids |-> NoRole], toast |-> "none"]

OpenPage(c, name) ==
    /\ c \in Ids
    /\ page.user = NULL
    /\ page' = [NoPage EXCEPT !.name = name, !.user = c]
    /\ UNCHANGED <<calls, users, classes, class_assignments, syllabus_entries, announcements,
                   last, requests, activeRIRs>>

\* select('role').eq('id', user.id).single(): an error unless one row is read;
\* on error the effect returns and userRole stays as it is
checkAdminStatus ==
    /\ page.user # NULL
    /\ ~page.checked
    /\ LET c == page.user
           seen == {r \in users : r.id = c /\ users_SELECT(c, r)}
       IN  /\ page' = [page EXCEPT !.checked = TRUE,
                                   !.userRole = IF seen # {}
                                                THEN (CHOOSE r \in seen : TRUE).role
                                                ELSE @]
           /\ last' = Outcome("checkAdminStatus", c, c, seen # {}, Cardinality(seen))
    /\ UNCHANGED <<calls, users, classes, class_assignments, syllabus_entries, announcements,
                   requests, activeRIRs>>

\* fetchUsers / fetchVolunteers: the effect fetches only once userRole is
\* 'admin', and only the fetch clears the loading flag
fetchUsers ==
    /\ page.user # NULL
    /\ page.userRole = "admin"
    /\ page.loading
    /\ LET c == page.user
           seen == {r \in users : /\ users_SELECT(c, r)
                                  /\ (page.name = "ManageClasses" => r.role = "volunteer")}
       IN  /\ page' = [page EXCEPT
                          !.loading = FALSE,
                          !.shown = [u \in Ids |-> IF \E r \in seen : r.id = u
                                                   THEN (CHOOSE r \in seen : r.id = u).role
                                                   ELSE NoRole]]
           /\ last' = Outcome("fetchUsers", c, NoFilter, TRUE, Cardinality(seen))
    /\ UNCHANGED <<calls, users, classes, class_assignments, syllabus_entries, announcements,
                   requests, activeRIRs>>

\* the role select of a listed user: update({ role: newRole }).eq('id', userId);
\* without an error the list is changed and "Success" is shown
handleRoleUpdate(userId, newRole) ==
    /\ page.name = "ManageVolunteers"
    /\ page.userRole = "admin"
    /\ ~page.loading
    /\ page.shown[userId] # NoRole
    /\ UpdateUsersAs("handleRoleUpdate", page.user, userId, [role |-> newRole])
    /\ page' = IF last'.ok
               THEN [page EXCEPT !.shown[userId] = newRole, !.toast = "Success"]
               ELSE [page EXCEPT !.toast = "Error"]
    /\ UNCHANGED <<calls, classes, class_assignments, syllabus_entries, announcements,
                   requests, activeRIRs>>

ClosePage ==
    /\ page.user # NULL
    /\ page' = NoPage
    /\ UNCHANGED <<calls, users, classes, class_assignments, syllabus_entries, announcements,
                   last, requests, activeRIRs>>

\* what the page renders
Redirected == page.userRole # "" /\ page.userRole # "admin"

ShowsSpinner == page.user # NULL /\ ~Redirected /\ page.loading

\* ------------------------------------------------------ policy expansion
\* The policies as the rewriter sees them: the relation and command each is
\* for, and the relations its expression reads in a subquery (EXISTS,
\* scalar SELECT).  get_current_user_role() is a function call, not a
\* subquery: it is SECURITY DEFINER and no policy is applied inside it.
\* variant: the SELECT policy of users tests for admin with EXISTS over users
PolicyCatalogueWithExists ==
    {[name |-> "Users can read own profile or admins read all", rel |-> "users",
      cmd |-> "SELECT", sublinks |-> {"users"}],
     [name |-> "Users update own profile except role", rel |-> "users",
      cmd |-> "UPDATE", sublinks |-> {"users"}]}

PolicyCatalogue ==
    {[name |-> "Users can read own profile or admins read all", rel |-> "users",
      cmd |-> "SELECT", sublinks |-> {}],
     [name |-> "Users update own profile except role", rel |-> "users",
      cmd |-> "UPDATE", sublinks |-> {"users"}],
     [name |-> "Users can update own profile", rel |-> "users",
      cmd |-> "UPDATE", sublinks |-> {}],
     [name |-> "System can insert users", rel |-> "users",
      cmd |-> "INSERT", sublinks |-> {}],
     [name |-> "Admins can delete users", rel |-> "users",
      cmd |-> "DELETE", sublinks |-> {}],
     [name |-> "Public can view classes", rel |-> "classes",
      cmd |-> "SELECT", sublinks |-> {}],
     [name |-> "Authenticated users view assigned classes", rel |-> "classes",
      cmd |-> "SELECT", sublinks |-> {"class_assignments"}],
     [name |-> "Admins manage all classes", rel |-> "classes",
      cmd |-> "ALL", sublinks |-> {}],
     [name |-> "Volunteers see own assignments", rel |-> "class_assignments",
      cmd |-> "SELECT", sublinks |-> {}],
     [name |-> "Admins manage all assignments", rel |-> "class_assignments",
      cmd |-> "ALL", sublinks |-> {}],
     [name |-> "Authenticated users view assigned class syllabus",
      rel |-> "syllabus_entries", cmd |-> "SELECT",
      sublinks |-> {"class_assignments"}],
     [name |-> "Volunteers manage own class syllabus", rel |-> "syllabus_entries",
      cmd |-> "ALL", sublinks |-> {"class_assignments"}],
     [name |-> "Admins manage all syllabus", rel |-> "syllabus_entries",
      cmd |-> "ALL", sublinks |-> {}],
     [name |-> "Volunteers can update own syllabus entries",
      rel |-> "syllabus_entries", cmd |-> "UPDATE", sublinks |-> {}],
     [name |-> "Authenticated users read relevant announcements",
      rel |-> "announcements", cmd |-> "SELECT",
      sublinks |-> {"class_assignments"}],
     [name |-> "Volunteers post to assigned classes", rel |-> "announcements",
      cmd |-> "INSERT", sublinks |-> {"class_assignments"}],
     [name |-> "Admins manage all announcements", rel |-> "announcements",
      cmd |-> "ALL", sublinks |-> {}],
     [name |-> "Authors can update own announcements", rel |-> "announcements",
      cmd |-> "UPDATE", sublinks |-> {}]}

Relations == {"users", "classes", "class_assignments", "syllabus_entries", "announcements"}

Commands == {"SELECT", "INSERT", "UPDATE", "DELETE"}

\* the policies applied to a reference to rel by a cmd statement: those of
\* the command and, for a statement that reads the rows it changes, those
\* of SELECT
PoliciesFor(rel, cmd) ==
    {p \in PolicyCatalogue :
        /\ p.rel = rel
        /\ \/ p.cmd \in {cmd, "ALL"}
           \/ (cmd \in {"UPDATE", "DELETE"} /\ p.cmd = "SELECT")}

Sublinks(rel, cmd) == UNION {p.sublinks : p \in PoliciesFor(rel, cmd)}

RecursionError == "infinite recursion detected in policy"

\* the rewriter meets a statement on rel and starts expanding its policies
BeginExpansion(rel, cmd) ==
    /\ activeRIRs = <<>>
    /\ activeRIRs' = <<[rel |-> rel, cmd |-> cmd]>>
    /\ UNCHANGED <<calls, users, classes, class_assignments, syllabus_entries, announcements,
                   last, requests, page>>

\* it walks into a subquery of the policies on top: the relation read there
\* gets its SELECT policies; if these hold subqueries and the relation is
\* already being expanded, the rewriter gives up with an error
ExpandSublink(rel) ==
    /\ activeRIRs # <<>>
    /\ LET top == activeRIRs[Len(activeRIRs)]
           active == {activeRIRs[i].rel : i \in DOMAIN activeRIRs}
       IN  /\ top.cmd # RecursionError
           /\ rel \in Sublinks(top.rel, top.cmd)
           /\ activeRIRs' = Append(activeRIRs,
                  [rel |-> rel,
                   cmd |-> IF rel \in active /\ Sublinks(rel, "SELECT") # {}
                           THEN RecursionError ELSE "SELECT"])
    /\ UNCHANGED <<calls, users, classes, class_assignments, syllabus_entries, announcements,
                   last, requests, page>>

\* the policies on top are done, or the error has ended the statement
EndExpansion ==
    /\ activeRIRs # <<>>
    /\ activeRIRs' = IF activeRIRs[Len(activeRIRs)].cmd = RecursionError
                     THEN <<>>
                     ELSE SubSeq(activeRIRs, 1, Len(activeRIRs) - 1)
    /\ UNCHANGED <<calls, users, classes, class_assignments, syllabus_entries, announcements,
                   last, requests, page>>

\* --------------------------------------- ManageClasses.handleClassAssignment
\* the handler writes class_label as `${grade}-${subject}`: the label of a
\* class it created is its (grade, subject) pair
grade_subject(r) == r.class_label

\* the positions of one call: the three awaited statements, then the toast
Positions == {"find", "create", "assign", "done", "failed"}

\* an admin picks a volunteer, a grade and a subject and presses Assign
handleClassAssignment(c, userId, label) ==
    /\ c \in Ids
    /\ get_current_user_role(c) = "admin"
    /\ Cardinality(calls) < MaxRequests
    /\ calls' = calls \cup {[uid |-> c, userId |-> userId, label |-> label,
                             pc |-> "find", classId |-> NULL]}
    /\ UNCHANGED <<users, classes, class_assignments, syllabus_entries, announcements,
                   last, requests, activeRIRs, page>>

\* select('id').eq('grade', grade).eq('subject', subject).maybeSingle():
\* no row is no class yet, one row is the class, more rows are an error
findClass(q) ==
    /\ q \in calls
    /\ q.pc = "find"
    /\ LET seen == {r \in classes : /\ grade_subject(r) = q.label
                                    /\ classes_SELECT(q.uid, r)}
           ok == Cardinality(seen) <= 1
           after == IF ~ok THEN [q EXCEPT !.pc = "failed"]
                    ELSE IF seen = {} THEN [q EXCEPT !.pc = "create"]
                    ELSE [q EXCEPT !.pc = "assign",
                                   !.classId = (CHOOSE r \in seen : TRUE).id]
       IN  /\ calls' = (calls \ {q}) \cup {after}
           /\ last' = Outcome("SelectClasses", q.uid, NoFilter, ok, Cardinality(seen))
    /\ UNCHANGED <<users, classes, class_assignments, syllabus_entries, announcements,
                   requests, activeRIRs, page>>

\* insert({grade, subject, class_label}).select('id').single()
createClass(q) ==
    /\ q \in calls
    /\ q.pc = "create"
    /\ InsertClassesRows(q.uid, q.label)
    /\ calls' = (calls \ {q}) \cup
                    {IF last'.ok THEN [q EXCEPT !.pc = "assign", !.classId = last'.arg]
                     ELSE [q EXCEPT !.pc = "failed"]}
    /\ UNCHANGED <<users, class_assignments, syllabus_entries, announcements,
                   requests, activeRIRs, page>>

\* upsert({user_id, class_id}, {onConflict: 'user_id,class_id'})
assignClass(q) ==
    /\ q \in calls
    /\ q.pc = "assign"
    /\ UpsertClassAssignmentsRows(q.uid, q.userId, q.classId)
    /\ calls' = (calls \ {q}) \cup
                    {[q EXCEPT !.pc = IF last'.ok THEN "done" ELSE "failed"]}
    /\ UNCHANGED <<users, classes, syllabus_entries, announcements,
                   requests, activeRIRs, page>>

\* the toast is shown and the call is over
returnFromCall(q) ==
    /\ q \in calls
    /\ q.pc \in {"done", "failed"}
    /\ calls' = calls \ {q}
    /\ UNCHANGED <<users, classes, class_assignments, syllabus_entries, announcements,
                   last, requests, activeRIRs, page>>

\* ------------------------------------------------------------ specification
NoStatement ==
    [op |-> "none", uid |-> NULL, role |-> NoRole, arg |-> NoFilter, arg2 |-> NULL,
     ok |-> TRUE, rows |-> 0]

\* the database right after the migrations: every table empty
Init ==
    /\ users = {}
    /\ classes = {}
    /\ class_assignments = {}
    /\ syllabus_entries = {}
    /\ announcements = {}
    /\ last = NoStatement
    /\ requests = {}
    /\ calls = {}
    /\ activeRIRs = <<>>
    /\ page = NoPage

\* the portal before its first class: every identity provisioned, no class
InitNoClasses ==
    /\ users \in {{[id |-> u, role |-> f[u], name |-> "n1"] : u \in Ids} :
                      f \in [Ids -> Roles]}
    /\ classes = {}
    /\ class_assignments = {}
    /\ syllabus_entries = {}
    /\ announcements = {}
    /\ last = NoStatement
    /\ requests = {}
    /\ calls = {}
    /\ activeRIRs = <<>>
    /\ page = NoPage

\* a database in use: every identity provisioned, the classes created
InitInUse ==
    /\ users \in {{[id |-> u, role |-> f[u], name |-> "n1"] : u \in Ids} :
                      f \in [Ids -> Roles]}
    /\ classes = {[id |-> k, class_label |-> "l1"] : k \in ClassIds}
    /\ class_assignments = {}
    /\ syllabus_entries = {}
    /\ announcements = {}
    /\ last = NoStatement
    /\ requests = {}
    /\ calls = {}
    /\ activeRIRs = <<>>
    /\ page = NoPage

\* every identity provisioned, with any role and name, nothing in flight
InitProfiles ==
    /\ users \in {{[id |-> u, role |-> f[u], name |-> g[u]] : u \in Ids} :
                      f \in [Ids -> Roles], g \in [Ids -> Names]}
    /\ classes = {}
    /\ class_assignments = {}
    /\ syllabus_entries = {}
    /\ announcements = {}
    /\ last = NoStatement
    /\ requests = {}
    /\ calls = {}
    /\ activeRIRs = <<>>
    /\ page = NoPage

\* self-updates sent at any time and run in any order
NextProfiles ==
    \/ \E c \in Ids, n \in Names : handleSaveProfile(c, n)
    \/ \E c \in Ids, r \in Roles : UpdateOwnRole(c, r)
    \/ \E q \in requests : Deliver(q)

NextUsers ==
    \/ \E u \in Ids, e \in Emails, n \in Names : handle_new_user(u, e, n)
    \/ \E u \in Ids : handle_deleted_user(u)
    \/ \E c \in Callers, u \in Ids, r \in Roles \cup {"superadmin"} : promote_user(c, u, r)
    \/ \E c \in Callers, u \in Ids, r \in Roles \cup {"superadmin"}, n \in Names :
           InsertUsers(c, u, r, n)
    \/ \E c \in Callers, t \in Ids \cup {NoFilter} : SelectUsers(c, t)
    \/ \E c \in Callers, t \in Ids \cup {NoFilter}, p \in UserPatches : UpdateUsers(c, t, p)

NextAssignments ==
    \/ \E c \in Callers, u \in Ids, r \in Roles : promote_user(c, u, r)
    \/ \E c \in Callers, u \in Ids, k \in ClassIds : UpsertClassAssignments(c, u, k)
    \/ \E c \in Callers, u \in Ids, k \in ClassIds : DeleteClassAssignments(c, u, k)

\* while syllabus entries and announcements are worked on, roles and
\* assignments keep changing: the statements of NextAssignments that take
\* effect (one that changes nothing leaves the other tables' statements
\* the same database to act on)
Administration ==
    \/ \E c \in Callers, u \in Ids, r \in Roles :
           promote_user(c, u, r) /\ users' # users
    \/ \E c \in Callers, u \in Ids, k \in ClassIds :
           UpsertClassAssignments(c, u, k) /\ class_assignments' # class_assignments
    \/ \E c \in Callers, u \in Ids, k \in ClassIds :
           DeleteClassAssignments(c, u, k) /\ class_assignments' # class_assignments

NextClasses ==
    \/ NextAssignments
    \/ \E c \in Callers, u \in Ids, k \in ClassIds : SelectClassAssignments(c, u, k)
    \/ \E c \in Callers, t \in ClassIds \cup {NoFilter} : SelectClasses(c, t)
    \/ \E c \in Callers, l \in Labels : InsertClasses(c, l)
    \/ \E c \in Callers, t \in ClassIds \cup {NoFilter}, p \in [class_label : Labels] :
           UpdateClasses(c, t, p)
    \/ \E c \in Callers, t \in ClassIds \cup {NoFilter} : DeleteClasses(c, t)

NextSyllabus ==
    \/ Administration
    \/ \E c \in Callers, t \in EntryIds \cup {NoFilter} : SelectSyllabusEntries(c, t)
    \/ \E c \in Callers, v \in Ids, k \in ClassIds, a \in BOOLEAN, n \in Notes,
          returning \in BOOLEAN : InsertSyllabusEntries(c, v, k, a, n, returning)
    \/ \E c \in Callers, t \in EntryIds \cup {NoFilter}, p \in EntryPatches :
           UpdateSyllabusEntries(c, t, p)
    \/ \E c \in Callers, t \in EntryIds \cup {NoFilter} : DeleteSyllabusEntries(c, t)

NextAnnouncements ==
    \/ Administration
    \/ \E c \in Callers, t \in AnnouncementIds \cup {NoFilter} : SelectAnnouncements(c, t)
    \/ \E c \in Callers, a \in Ids, k \in ClassIds \cup {NULL}, m \in Messages,
          returning \in BOOLEAN : InsertAnnouncements(c, a, k, m, returning)
    \/ \E c \in Callers, t \in AnnouncementIds \cup {NoFilter}, p \in AnnouncementPatches :
           UpdateAnnouncements(c, t, p)
    \/ \E c \in Callers, t \in AnnouncementIds \cup {NoFilter} : DeleteAnnouncements(c, t)

\* the views read while roles, assignments and entries change
NextViews ==
    \/ Administration
    \/ \E c \in Callers, v \in Ids, k \in ClassIds, a \in BOOLEAN, n \in Notes :
           InsertSyllabusEntries(c, v, k, a, n, FALSE)
    \/ \E c \in Callers, granted \in BOOLEAN : SelectPendingVolunteers(c, granted)
    \/ \E c \in Callers, granted \in BOOLEAN : SelectVolunteerDashboard(c, granted)

\* the admin pages in use while users are provisioned and promoted
NextPages ==
    \/ \E u \in Ids, e \in Emails, n \in Names :
           handle_new_user(u, e, n) /\ users' # users
    \/ \E c \in Callers, u \in Ids, r \in Roles :
           promote_user(c, u, r) /\ users' # users
    \/ \E c \in Ids, name \in PageNames : OpenPage(c, name)
    \/ checkAdminStatus
    \/ fetchUsers
    \/ \E u \in Ids, r \in Roles : handleRoleUpdate(u, r)
    \/ ClosePage

\* statements are rewritten while roles and assignments change
NextPolicies ==
    \/ Administration
    \/ \E rel \in Relations, cmd \in Commands : BeginExpansion(rel, cmd)
    \/ \E rel \in Relations : ExpandSublink(rel)
    \/ EndExpansion

NextAssign ==
    \/ \E c \in Ids, u \in Ids, l \in Labels : handleClassAssignment(c, u, l)
    \/ \E q \in calls : findClass(q)
    \/ \E q \in calls : createClass(q)
    \/ \E q \in calls : assignClass(q)
    \/ \E q \in calls : returnFromCall(q)

Next == NextUsers \/ NextClasses \/ NextSyllabus \/ NextAnnouncements \/ NextProfiles
            \/ NextViews \/ NextPolicies \/ NextPages \/ NextAssign

\* the whole portal, from the empty database
Spec == Init /\ [][Next]_vars

\* the users table alone: provisioning, profile updates, promotion
SpecUsers == Init /\ [][NextUsers]_vars

\* classes and their assignments, in a database in use
SpecProfiles == InitProfiles /\ [][NextProfiles]_vars

SpecClasses == InitInUse /\ [][NextClasses]_vars

\* syllabus entries, in a database in use
SpecSyllabus == InitInUse /\ [][NextSyllabus]_vars

\* announcements, in a database in use
SpecAnnouncements == InitInUse /\ [][NextAnnouncements]_vars

SpecViews == InitInUse /\ [][NextViews]_vars

SpecPolicies == InitInUse /\ [][NextPolicies]_vars

SpecPages == Init /\ [][NextPages]_vars

\* the page's effects run once their dependencies are set: an effect that can
\* run does run
SpecPagesLive == SpecPages /\ WF_vars(checkAdminStatus) /\ WF_vars(fetchUsers)

\* the Assign button of ManageClasses, pressed in several sessions at once
SpecAssign == InitNoClasses /\ [][NextAssign]_vars

\* ================================================================= claims
RoleOf(tbl, u) ==
    IF \E r \in tbl : r.id = u THEN (CHOOSE r \in tbl : r.id = u).role ELSE NoRole

\* C1: an UPDATE of the users table sent by a caller whose role is not admin
\* never changes the role stored in the caller's own row, whatever else the
\* statement sets.
C1_SelfUpdateKeepsRole ==
    [][(last'.op = "UpdateUsers" /\ last'.role # "admin")
          => RoleOf(users', last'.uid) = RoleOf(users, last'.uid)]_vars

\* C2: promote_user(target, new_role) called by a caller whose role is not
\* admin (the target may be the caller) leaves every user's role unchanged.
C2_PromoteNeedsAdmin ==
    [][(last'.op = "promote_user" /\ last'.role # "admin") => users' = users]_vars

\* every row syllabus_entries and announcements can hold
EntryRows ==
    [id : EntryIds, class_id : ClassIds, volunteer_id : Ids, approved : BOOLEAN,
     notes : Notes]

AnnouncementRows ==
    [id : AnnouncementIds, class_id : ClassIds \cup {NULL}, author_id : Ids,
     message : Messages]

ClassRows == [id : ClassIds, class_label : Labels]

AssignmentRows == [user_id : Ids, class_id : ClassIds]

\* C4: for a caller whose role is admin the policies of classes,
\* syllabus_entries, announcements and class_assignments pass every row for
\* SELECT, INSERT, UPDATE and DELETE, whatever assignments exist; the
\* statements an admin sends on classes and class_assignments reach every row
\* they name and are refused by keys only, never by a policy.
C4_AdminMayDoAll ==
    /\ \A c \in Callers :
           get_current_user_role(c) = "admin" =>
              /\ \A r \in ClassRows :
                     /\ classes_SELECT(c, r)
                     /\ classes_INSERT_CHECK(c, r)
                     /\ classes_UPDATE_USING(c, r)
                     /\ classes_UPDATE_CHECK(c, r)
                     /\ classes_DELETE_USING(c, r)
              /\ \A r \in EntryRows :
                     /\ syllabus_entries_SELECT(c, r)
                     /\ syllabus_entries_INSERT_CHECK(c, r)
                     /\ syllabus_entries_UPDATE_USING(c, r)
                     /\ syllabus_entries_UPDATE_CHECK(c, r)
                     /\ syllabus_entries_DELETE_USING(c, r)
              /\ \A r \in AnnouncementRows :
                     /\ announcements_SELECT(c, r)
                     /\ announcements_INSERT_CHECK(c, r)
                     /\ announcements_UPDATE_USING(c, r)
                     /\ announcements_UPDATE_CHECK(c, r)
                     /\ announcements_DELETE_USING(c, r)
              /\ \A r \in AssignmentRows :
                     /\ class_assignments_SELECT(c, r)
                     /\ class_assignments_INSERT_CHECK(c, r)
                     /\ class_assignments_UPDATE_USING(c, r)
                     /\ class_assignments_UPDATE_CHECK(c, r)
                     /\ class_assignments_DELETE_USING(c, r)
    /\ last.role = "admin" =>
          /\ (last.op = "SelectClasses")
                => (last.rows = Cardinality({r \in classes : Match(r, last.arg)}))
          /\ (last.op = "InsertClasses") => (last.ok /\ ClassExists(last.arg))
          /\ (last.op = "UpdateClasses")
                => (last.ok /\ last.rows = Cardinality({r \in classes : Match(r, last.arg)}))
          /\ (last.op = "DeleteClasses")
                => (\/ \A r \in classes : ~Match(r, last.arg)
                    \/ \E r \in classes : Match(r, last.arg) /\ ClassRefs(r.id))
          /\ (last.op = "SelectClassAssignments")
                => (last.rows = 1 <=> Assigned(last.arg, last.arg2))
          /\ (last.op = "UpsertClassAssignments")
                => ((UserExists(last.arg) /\ ClassExists(last.arg2))
                       => (last.ok /\ Assigned(last.arg, last.arg2)))
          /\ (last.op = "DeleteClassAssignments")
                => (last.ok /\ ~Assigned(last.arg, last.arg2))

\* an admin assigned a user to a class and the row is there
C4_Witness ==
    /\ last.op = "UpsertClassAssignments"
    /\ last.role = "admin"
    /\ last.ok
    /\ last.arg # last.uid
    /\ Assigned(last.arg, last.arg2)

\* C5: an INSERT into syllabus_entries by a caller whose role is not admin
\* succeeds if and only if the row names the caller as volunteer and the
\* caller holds an assignment to the row's class; a refused insert adds no
\* row, an accepted one adds exactly the row.
C5_InsertOwnAssignedOnly ==
    [][(last'.op = "InsertSyllabusEntries" /\ last'.role # "admin")
          => /\ last'.ok <=> (last'.arg = last'.uid /\ Assigned(last'.uid, last'.arg2))
             /\ ~last'.ok => syllabus_entries' = syllabus_entries
             /\ last'.ok =>
                   \E r \in EntryRows :
                       /\ r \notin syllabus_entries
                       /\ r.volunteer_id = last'.arg
                       /\ r.class_id = last'.arg2
                       /\ syllabus_entries' = syllabus_entries \cup {r}]_vars

\* a volunteer logged an entry of their own for a class they are assigned to
C5_Witness ==
    /\ last.op = "InsertSyllabusEntries"
    /\ last.role = "volunteer"
    /\ last.ok
    /\ \E r \in syllabus_entries : r.volunteer_id = last.uid /\ r.class_id = last.arg2
    /\ \E u \in Ids : u # last.uid /\ get_current_user_role(u) # "admin"

\* C6: a DELETE on syllabus_entries sent by a caller whose role is not admin
\* removes no row.
C6_NonAdminDeletesNothing ==
    [][(last'.op = "DeleteSyllabusEntries" /\ last'.role # "admin")
          => syllabus_entries' = syllabus_entries]_vars

\* C7: an UPDATE on syllabus_entries sent by a caller whose role is not admin
\* leaves the approved flag of every entry as it was.
C7_NonAdminKeepsApproved ==
    [][(last'.op = "UpdateSyllabusEntries" /\ last'.role # "admin")
          => \A r \in syllabus_entries :
                \A q \in syllabus_entries' : q.id = r.id => q.approved = r.approved]_vars

\* C8: an UPDATE of the content of the syllabus entry E (WHERE id = E) takes
\* effect if and only if the caller is the entry's named volunteer or the
\* caller's role is admin, whether or not the volunteer still holds an
\* assignment to the entry's class.
C8_UpdateIffOwnerOrAdmin ==
    [][\A c \in Callers, t \in EntryIds, p \in [notes : Notes] :
          UpdateSyllabusEntries(c, t, p)
              => \A r \in syllabus_entries :
                    r.id = t =>
                       ((last'.ok /\ last'.rows = 1)
                           <=> \/ r.volunteer_id = c
                               \/ get_current_user_role(c) = "admin")]_vars

\* C9: an UPDATE of the users row R (WHERE id = R, valid role) by caller C goes
\* through if and only if C is R's identity and the new role equals the stored
\* role or C's role is admin.
C9_UpdateUsersIff ==
    [][\A c \in Callers, t \in Ids, p \in UserPatches :
          (UpdateUsers(c, t, p) /\ Patch([role |-> "viewer"], p).role \in Roles)
              => \A r \in users :
                    r.id = t =>
                       ((last'.ok /\ last'.rows = 1)
                           <=> /\ c = r.id
                               /\ \/ Patch(r, p).role = r.role
                                  \/ get_current_user_role(c) = "admin")]_vars

\* C10: a SELECT on users returns a row to a caller if and only if the row is
\* the caller's own or the caller's role is admin.
C10_SelectOwnOrAdmin ==
    last.op = "SelectUsers" =>
        last.rows = Cardinality({r \in users :
                                    /\ Match(r, last.arg)
                                    /\ (r.id = last.uid \/ last.role = "admin")})

\* a non-admin asked for another user's existing row and got nothing
C10_Witness ==
    /\ last.op = "SelectUsers"
    /\ last.role \in {"volunteer", "viewer"}
    /\ last.arg \in Ids
    /\ last.arg # last.uid
    /\ UserExists(last.arg)
    /\ last.rows = 0

\* C11: a SELECT on class_assignments returns a row to a caller if and only
\* if the row's user is the caller or the caller's role is admin.
C11_SelectOwnAssignmentOrAdmin ==
    last.op = "SelectClassAssignments" =>
        last.rows = Cardinality({r \in class_assignments :
                                    /\ r.user_id = last.arg
                                    /\ r.class_id = last.arg2
                                    /\ (r.user_id = last.uid \/ last.role = "admin")})

\* a non-admin asked for an existing assignment of another user to a class the
\* caller is assigned to as well, and got nothing
C11_Witness ==
    /\ last.op = "SelectClassAssignments"
    /\ last.role \in {"volunteer", "viewer"}
    /\ last.arg # last.uid
    /\ Assigned(last.arg, last.arg2)
    /\ Assigned(last.uid, last.arg2)
    /\ last.rows = 0

\* C12: every statement that changes classes or class_assignments was sent
\* by a caller whose role was admin when it ran; in particular no caller
\* whose role is not admin assigns a class to anybody, itself included.
C12_AdminOwned ==
    [][(classes' # classes \/ class_assignments' # class_assignments)
          => last'.role = "admin"]_vars

\* a caller whose role is not admin tried to assign a class to itself and
\* was refused
C12_Witness ==
    /\ last.op = "UpsertClassAssignments"
    /\ last.role \in {"volunteer", "viewer"}
    /\ last.arg = last.uid
    /\ ClassExists(last.arg2)
    /\ ~last.ok
    /\ ~Assigned(last.uid, last.arg2)

\* C13: an INSERT into announcements by a caller whose role is not admin
\* succeeds only if the row names the caller as author and is global or scoped
\* to a class the caller is assigned to; a viewer without any assignment
\* creates no announcement.
C13_PostersAreAssigned ==
    [][(last'.op = "InsertAnnouncements" /\ last'.role # "admin" /\ last'.ok)
          => /\ last'.arg = last'.uid
             /\ (last'.arg2 = NULL \/ Assigned(last'.uid, last'.arg2))
             /\ ~(/\ last'.role = "viewer"
                  /\ \A k \in ClassIds : ~Assigned(last'.uid, k))]_vars

\* C14: an UPDATE on announcements by a caller whose role is not admin
\* leaves every row the caller is not the author of as it was, and a DELETE by
\* a caller whose role is not admin, the author included, removes no row.
C14_AuthorOrAdminMutates ==
    [][/\ (last'.op = "UpdateAnnouncements" /\ last'.role # "admin")
             => (\A r \in announcements :
                    r.author_id # last'.uid => r \in announcements')
       /\ (last'.op = "DeleteAnnouncements" /\ last'.role # "admin")
             => (announcements' = announcements)]_vars

\* the author, not an admin, asked to delete their own announcement and
\* nothing was removed
C14_Witness ==
    /\ last.op = "DeleteAnnouncements"
    /\ last.role \in {"volunteer", "viewer"}
    /\ last.rows = 0
    /\ \E r \in announcements : r.id = last.arg /\ r.author_id = last.uid

C16_ProvisionedAsViewer ==
    [][(last'.op = "handle_new_user" /\ last'.rows = 1)
          => RoleOf(users', last'.arg) = "viewer"]_vars

\* C17: every invocation of handle_new_user, in any interleaving with other
\* invocations and statements, ends without error and leaves exactly one
\* users row for the identity; when the row is already there it is left as it
\* is, with the role and name it has by then.
C17_ProvisioningIsIdempotent ==
    [][last'.op = "handle_new_user"
          => /\ last'.ok
             /\ Cardinality({r \in users' : r.id = last'.arg}) = 1
             /\ (UserExists(last'.arg) => users' = users)]_vars

\* the hook ran again for an identity whose role and name had been changed
\* since it was provisioned, and the row kept them
C17_Witness ==
    /\ last.op = "handle_new_user"
    /\ last.rows = 0
    /\ \E r \in users : r.id = last.arg /\ r.role = "volunteer" /\ r.name = "n2"

\* C18: a promotion or a write of the role column with a value that is not
\* admin, volunteer or viewer is rejected and changes no row, so every users
\* row always holds one of the three roles.
C18_RolesStayValid ==
    [][/\ \A r \in users' : r.role \in {"admin", "volunteer", "viewer"}
       /\ (last'.op \in {"promote_user", "UpdateUsers", "InsertUsers"} /\ ~last'.ok)
             => users' = users]_vars

\* a promotion of an existing user was rejected
C18_Witness ==
    /\ last.op = "promote_user"
    /\ ~last.ok
    /\ UserExists(last.arg)

\* C19: when a user who is not an admin sends a change of name and a change
\* of role at the same time (both from the same loaded profile), then once
\* both have run, in whichever order, the row has the old role and the new
\* name.
C19_InterleavedSelfUpdates ==
    \A q1, q2 \in requests :
        (/\ requests = {q1, q2}
         /\ q1.done /\ q2.done
         /\ q1.uid = q2.uid
         /\ q1.profile = q2.profile
         /\ q1.profile.role # "admin"
         /\ DOMAIN q1.patch = {"name"}
         /\ DOMAIN q2.patch = {"role"})
        => \E r \in users : /\ r.id = q1.uid
                            /\ r.role = q1.profile.role
                            /\ r.name = q1.patch.name

\* C20: for every caller, each row of pending_volunteers and of
\* volunteer_dashboard is built from users, classes and syllabus_entries rows
\* the caller may SELECT from the tables themselves; a caller who is not an
\* admin gets from pending_volunteers no account but their own, and a caller
\* who is not signed in gets no row from volunteer_dashboard.
C20_ViewsShowOnlySelectableRows ==
    /\ \A c \in Callers :
          /\ \A v \in pending_volunteers(c) :
                 \E r \in users : /\ users_SELECT(c, r)
                                  /\ r.id = v.id
                                  /\ r.name = v.name
          /\ \A v \in volunteer_dashboard(c) :
                 /\ \E r \in syllabus_entries : /\ syllabus_entries_SELECT(c, r)
                                                /\ r.id = v.syllabus_entry_id
                                                /\ r.notes = v.notes
                 /\ \E r \in users : /\ users_SELECT(c, r)
                                     /\ r.id = v.volunteer_id
                                     /\ r.name = v.volunteer_name
                 /\ \E r \in classes : /\ classes_SELECT(c, r)
                                       /\ r.id = v.class_id
                                       /\ r.class_label = v.class_label
    /\ (last.op = "SelectPendingVolunteers" /\ last.role # "admin")
          => last.rows <= Cardinality({r \in users : r.id = last.uid /\ r.role = "viewer"})
    /\ (last.op = "SelectVolunteerDashboard" /\ last.uid = NULL)
          => last.rows = 0

\* a viewer read pending_volunteers and got only their own account while
\* another viewer account exists
C20_Witness ==
    /\ last.op = "SelectPendingVolunteers"
    /\ last.ok
    /\ last.role = "viewer"
    /\ last.rows = 1
    /\ \E r \in users : r.id # last.uid /\ r.role = "viewer"

\* every row the users table can hold
UserRows == [id : Ids, role : Roles, name : Names]

\* what the policies pass for caller c: the table, the policy clause and
\* the row
Permitted(c) ==
    {<<"users", "SELECT", r>> : r \in {x \in UserRows : users_SELECT(c, x)}}
    \cup {<<"users", "INSERT", r>> : r \in {x \in UserRows : users_INSERT_CHECK(c, x)}}
    \cup {<<"users", "UPDATE USING", r>> : r \in {x \in UserRows : users_UPDATE_USING(c, x)}}
    \cup {<<"users", "UPDATE CHECK", r>> : r \in {x \in UserRows : users_UPDATE_CHECK(c, x)}}
    \cup {<<"users", "DELETE", r>> : r \in {x \in UserRows : users_DELETE_USING(c, x)}}
    \cup {<<"classes", "SELECT", r>> : r \in {x \in ClassRows : classes_SELECT(c, x)}}
    \cup {<<"classes", "INSERT", r>> : r \in {x \in ClassRows : classes_INSERT_CHECK(c, x)}}
    \cup {<<"classes", "UPDATE USING", r>> :
              r \in {x \in ClassRows : classes_UPDATE_USING(c, x)}}
    \cup {<<"classes", "UPDATE CHECK", r>> :
              r \in {x \in ClassRows : classes_UPDATE_CHECK(c, x)}}
    \cup {<<"classes", "DELETE", r>> : r \in {x \in ClassRows : classes_DELETE_USING(c, x)}}
    \cup {<<"class_assignments", "SELECT", r>> :
              r \in {x \in AssignmentRows : class_assignments_SELECT(c, x)}}
    \cup {<<"class_assignments", "INSERT", r>> :
              r \in {x \in AssignmentRows : class_assignments_INSERT_CHECK(c, x)}}
    \cup {<<"class_assignments", "UPDATE USING", r>> :
              r \in {x \in AssignmentRows : class_assignments_UPDATE_USING(c, x)}}
    \cup {<<"class_assignments", "UPDATE CHECK", r>> :
              r \in {x \in AssignmentRows : class_assignments_UPDATE_CHECK(c, x)}}
    \cup {<<"class_assignments", "DELETE", r>> :
              r \in {x \in AssignmentRows : class_assignments_DELETE_USING(c, x)}}
    \cup {<<"syllabus_entries", "SELECT", r>> :
              r \in {x \in EntryRows : syllabus_entries_SELECT(c, x)}}
    \cup {<<"syllabus_entries", "INSERT", r>> :
              r \in {x \in EntryRows : syllabus_entries_INSERT_CHECK(c, x)}}
    \cup {<<"syllabus_entries", "UPDATE USING", r>> :
              r \in {x \in EntryRows : syllabus_entries_UPDATE_USING(c, x)}}
    \cup {<<"syllabus_entries", "UPDATE CHECK", r>> :
              r \in {x \in EntryRows : syllabus_entries_UPDATE_CHECK(c, x)}}
    \cup {<<"syllabus_entries", "DELETE", r>> :
              r \in {x \in EntryRows : syllabus_entries_DELETE_USING(c, x)}}
    \cup {<<"announcements", "SELECT", r>> :
              r \in {x \in AnnouncementRows : announcements_SELECT(c, x)}}
    \cup {<<"announcements", "INSERT", r>> :
              r \in {x \in AnnouncementRows : announcements_INSERT_CHECK(c, x)}}
    \cup {<<"announcements", "UPDATE USING", r>> :
              r \in {x \in AnnouncementRows : announcements_UPDATE_USING(c, x)}}
    \cup {<<"announcements", "UPDATE CHECK", r>> :
              r \in {x \in AnnouncementRows : announcements_UPDATE_CHECK(c, x)}}
    \cup {<<"announcements", "DELETE", r>> :
              r \in {x \in AnnouncementRows : announcements_DELETE_USING(c, x)}}

\* C21: a caller without a role is allowed nothing a viewer without
\* assignments is refused: whatever the policies pass for a signed-in caller
\* who has no users row they still pass once that caller is provisioned as a
\* viewer, and whatever they pass for a caller who is not signed in they
\* pass for that viewer, who has no assignment.
C21_NoRoleIsViewerOrLess ==
    [][\A u \in Ids :
              (/\ last'.op = "handle_new_user"
               /\ last'.rows = 1
               /\ last'.arg = u
               /\ RoleOf(users', u) = "viewer")
              => /\ \A k \in ClassIds : ~Assigned(u, k)'
                 /\ Permitted(u) \subseteq Permitted(u)'
                 /\ Permitted(NULL)' \subseteq Permitted(u)']_vars

\* a caller was provisioned as viewer while an admin exists
C21_Witness ==
    /\ last.op = "handle_new_user"
    /\ last.rows = 1
    /\ RoleOf(users, last.arg) = "viewer"
    /\ \E r \in users : r.role = "admin"

C24_SelectHidesExistence ==
    [][/\ (last'.op = "SelectSyllabusEntries")
             => /\ last'.ok
                /\ (/\ last'.role # "admin"
                    /\ \A k \in ClassIds : ~Assigned(last'.uid, k))
                      => last'.rows = 0
       /\ (syllabus_entries' # syllabus_entries)
             => \A c \in Callers, t \in EntryIds \cup {NoFilter} :
                    (/\ get_current_user_role(c)' = get_current_user_role(c)
                     /\ \A k \in ClassIds : Assigned(c, k)' = Assigned(c, k)
                     /\ \A r \in syllabus_entries \ syllabus_entries' :
                            ~syllabus_entries_SELECT(c, r)
                     /\ \A r \in syllabus_entries' \ syllabus_entries :
                            ~syllabus_entries_SELECT(c, r))
                    => SeenSyllabusEntries(c, t)' = SeenSyllabusEntries(c, t)]_vars

\* a viewer without assignments asked for the entries while one is stored
\* and got none, without error
C24_Witness ==
    /\ last.op = "SelectSyllabusEntries"
    /\ last.ok
    /\ last.rows = 0
    /\ last.role = "viewer"
    /\ \A k \in ClassIds : ~Assigned(last.uid, k)
    /\ syllabus_entries # {}

\* C25: every request is decided on the roles and assignments stored when
\* it is made.  Right after the assignment of user u to class k is removed,
\* u not being an admin, the policies pass for u no SELECT of the class k, of
\* an entry or an announcement of k, and no INSERT of an entry for k; and a
\* caller who is not an admin when a request is made changes nothing with
\* the operations kept for admins (promote_user and the writes of classes
\* and class_assignments), whatever role the caller had before.
C25_DecidedOnCurrentData ==
    [][/\ \A u \in Ids, k \in ClassIds :
              (/\ Assigned(u, k)
               /\ ~Assigned(u, k)'
               /\ get_current_user_role(u)' # "admin")
              => /\ \A r \in ClassRows : (r.id = k) => ~classes_SELECT(u, r)'
                 /\ \A r \in EntryRows :
                        (r.class_id = k) => /\ ~syllabus_entries_SELECT(u, r)'
                                            /\ ~syllabus_entries_INSERT_CHECK(u, r)'
                 /\ \A r \in AnnouncementRows :
                        (r.class_id = k) => ~announcements_SELECT(u, r)'
       /\ (/\ last'.role # "admin"
           /\ last'.op \in {"promote_user", "InsertClasses", "UpdateClasses",
                            "DeleteClasses", "UpsertClassAssignments",
                            "DeleteClassAssignments"})
             => UNCHANGED <<users, classes, class_assignments>>]_vars

\* C26: when handleRoleUpdate, used by an admin on another user, shows
\* "Success", the role stored for that user is the role the page now lists.
C26_ReportedRoleIsStored ==
    [][(/\ last'.op = "handleRoleUpdate"
        /\ last'.role = "admin"
        /\ last'.arg # last'.uid
        /\ page'.toast = "Success")
          => RoleOf(users', last'.arg) = page'.shown[last'.arg]]_vars

\* C27: an INSERT on users sent by a caller who is not an admin never
\* leaves a row whose role is admin or volunteer, for the caller's own
\* identity or another.
C27_InsertedAsViewer ==
    [][(/\ last'.op = "InsertUsers"
        /\ last'.role # "admin"
        /\ last'.ok)
          => RoleOf(users', last'.arg) = "viewer"]_vars

\* C28: after any interleaving of handleClassAssignment calls, two of them at
\* once for a grade and subject with no class yet included, there is at most
\* one class per (grade, subject)
C28_OneClassPerGradeSubject ==
    \A r, q \in classes : grade_subject(r) = grade_subject(q) => r = q

\* C29: after an UPDATE of an announcement by its author, who is not an admin,
\* the announcement is still authored by the caller and is global or scoped to
\* a class the author is assigned to
C29_AuthorKeepsScope ==
    [][(/\ last'.op = "UpdateAnnouncements"
        /\ last'.ok
        /\ last'.role # "admin")
          => \A u \in Ids, r \in announcements, n \in announcements' :
                 (u = last'.uid /\ r.id = n.id /\ r # n /\ r.author_id = u)
                 => /\ n.author_id = u
                    /\ \A k \in ClassIds : n.class_id = k => Assigned(u, k)']_vars


\* C30: whoever opens ManageVolunteers or ManageClasses sees the page leave
\* the loading state, by the table or by the redirect, also when the role
\* lookup ends in an error or the user has no users row
C30_PageLeavesLoading == ShowsSpinner ~> ~ShowsSpinner

=============================================================================
